---- MODULE Spec2Model ----
(***************************************************************************)
(* Model of Diagrama_y_Arquitectura/tm.py, the pytm threat-model script of *)
(* the GymCoach application.                                               *)
(*                                                                         *)
(* The script is a straight-line module body: every statement either       *)
(* constructs a pytm object (TM, Boundary, Actor, Server, Datastore, Data, *)
(* Dataflow), assigns one attribute of an already bound object, or (last   *)
(* statement) calls tm.process() when the module is the main program.      *)
(* One step of the model executes one statement of the script.             *)
(*                                                                         *)
(* Objects are identified by the Python variable they are bound to.        *)
(* Enumeration members are written as the strings "Classification.X",      *)
(* "DatastoreType.X", "TLSVersion.X"; Python lists are sequences.          *)
(* Two independent runs of the script are modelled side by side.           *)
(***************************************************************************)
EXTENDS Integers, Sequences, FiniteSets, TLC

VARIABLES pc, registry, attrs, lastNew, isMain, processCalls, atProcess

vars == <<pc, registry, attrs, lastNew, isMain, processCalls, atProcess>>

\* The runs of the script that are compared with each other.
Runs == {1, 2}

Range(s) == {s[i] : i \in DOMAIN s}

----------------------------------------------------------------------------
(* Statement forms *)

\* x = Kind(...): construct an object of class kind, bind it to id; init is
\* the sequence of <<attribute, value>> pairs set by the constructor call.
New(line, kind, id, init) ==
    [op |-> "new", line |-> line, kind |-> kind, id |-> id, init |-> init]

\* x.attr = val
Set(line, id, attr, val) ==
    [op |-> "set", line |-> line, id |-> id, attr |-> attr, val |-> val]

\* if __name__ == "__main__": tm.process()
ProcessIfMain(line) == [op |-> "process_if_main", line |-> line, id |-> "tm"]

----------------------------------------------------------------------------
(* The script, section by section *)

TMStmts == <<
    New(16, "TM", "tm", << <<"name", "GymCoach App Threat Model">> >>),
    Set(17, "tm", "description",
        "Web application for users and coaches to manage workouts, classes and progress. Architecture: HTML/JS frontend served by a Node.js/Express backend with MongoDB Atlas."),
    Set(21, "tm", "isOrdered", TRUE),
    Set(22, "tm", "mergeResponses", TRUE),
    Set(23, "tm", "assumptions", <<
        "All external traffic to the application is over HTTPS through a cloud provider (e.g. Render/Heroku/Nginx).",
        "MongoDB Atlas is configured with authentication and network access control (IP allow-list / VPC peering).",
        "Passwords are stored hashed and never in plaintext.",
        "Admins/coaches use the same web interface but have elevated privileges managed by application roles." >>)
>>

BoundaryStmts == <<
    New(32, "Boundary", "internet", << <<"name", "Internet">> >>),
    New(34, "Boundary", "app_boundary", << <<"name", "Application Boundary">> >>),
    New(36, "Boundary", "cloud_db_boundary", << <<"name", "MongoDB Atlas Boundary">> >>)
>>

\* Variant of ActorStmts: user.description is assigned only after coach has
\* been constructed.
ActorStmts_LateDescription == <<
    New(40, "Actor", "user", << <<"name", "End User">> >>),
    Set(41, "user", "inBoundary", "internet"),
    New(44, "Actor", "coach", << <<"name", "Coach / Admin">> >>),
    Set(42, "user", "description",
        "Gym app user that registers, logs in and manages personal workouts."),
    Set(45, "coach", "inBoundary", "internet"),
    Set(46, "coach", "description",
        "Coach with elevated permissions to manage users, exercises and classes.")
>>

ActorStmts == <<
    New(40, "Actor", "user", << <<"name", "End User">> >>),
    Set(41, "user", "inBoundary", "internet"),
    Set(42, "user", "description",
        "Gym app user that registers, logs in and manages personal workouts."),
    New(44, "Actor", "coach", << <<"name", "Coach / Admin">> >>),
    Set(45, "coach", "inBoundary", "internet"),
    Set(46, "coach", "description",
        "Coach with elevated permissions to manage users, exercises and classes.")
>>

ServerStmts == <<
    New(50, "Server", "frontend", << <<"name", "Web Frontend (HTML/JS)">> >>),
    Set(51, "frontend", "inBoundary", "internet"),
    Set(52, "frontend", "OS", "Browser"),
    Set(53, "frontend", "description",
        "Static HTML/CSS/JS served to the user browser."),
    Set(54, "frontend", "controls.sanitizesInput", FALSE),
    Set(55, "frontend", "controls.encodesOutput", TRUE),
    New(57, "Server", "api_server", << <<"name", "Node.js Express API">> >>),
    Set(58, "api_server", "inBoundary", "app_boundary"),
    Set(59, "api_server", "OS", "Linux"),
    Set(60, "api_server", "description",
        "Node.js/Express backend defined in Server.js. Handles routes /users, /exercises, /clases and renders views."),
    Set(64, "api_server", "controls.isHardened", FALSE),
    Set(65, "api_server", "controls.sanitizesInput", TRUE),
    Set(66, "api_server", "controls.encodesOutput", TRUE),
    Set(67, "api_server", "controls.authorizesSource", TRUE),
    Set(68, "api_server", "sourceFiles", <<
        "BACK/Controllers/Router.js",
        "BACK/Controllers/User.js",
        "BACK/Controllers/Exercises.js",
        "BACK/Controllers/Clases.js" >>)
>>

\* Variant of DatastoreStmts: app_db.port is the default PostgreSQL port
\* instead of the MongoDB port.
DatastoreStmts_SqlPort == <<
    New(77, "Datastore", "app_db", << <<"name", "MongoDB Atlas - App Database">> >>),
    Set(78, "app_db", "inBoundary", "cloud_db_boundary"),
    Set(79, "app_db", "OS", "MongoDB Atlas"),
    Set(80, "app_db", "type", "DatastoreType.SQL"),
    Set(81, "app_db", "inScope", TRUE),
    Set(82, "app_db", "controls.isHardened", TRUE),
    Set(83, "app_db", "maxClassification", "Classification.RESTRICTED"),
    Set(84, "app_db", "storesPII", TRUE),
    Set(85, "app_db", "storesSensitiveData", TRUE),
    Set(86, "app_db", "port", 5432),
    Set(87, "app_db", "protocol", "TLS over TCP")
>>

\* Variant of DatastoreStmts: app_db.maxClassification is the bare string
\* "RESTRICTED" instead of a member of Classification.
DatastoreStmts_StringLevel == <<
    New(77, "Datastore", "app_db", << <<"name", "MongoDB Atlas - App Database">> >>),
    Set(78, "app_db", "inBoundary", "cloud_db_boundary"),
    Set(79, "app_db", "OS", "MongoDB Atlas"),
    Set(80, "app_db", "type", "DatastoreType.SQL"),
    Set(81, "app_db", "inScope", TRUE),
    Set(82, "app_db", "controls.isHardened", TRUE),
    Set(83, "app_db", "maxClassification", "RESTRICTED"),
    Set(84, "app_db", "storesPII", TRUE),
    Set(85, "app_db", "storesSensitiveData", TRUE),
    Set(86, "app_db", "port", 27017),
    Set(87, "app_db", "protocol", "TLS over TCP")
>>

DatastoreStmts == <<
    New(77, "Datastore", "app_db", << <<"name", "MongoDB Atlas - App Database">> >>),
    Set(78, "app_db", "inBoundary", "cloud_db_boundary"),
    Set(79, "app_db", "OS", "MongoDB Atlas"),
    Set(80, "app_db", "type", "DatastoreType.SQL"),
    Set(81, "app_db", "inScope", TRUE),
    Set(82, "app_db", "controls.isHardened", TRUE),
    Set(83, "app_db", "maxClassification", "Classification.RESTRICTED"),
    Set(84, "app_db", "storesPII", TRUE),
    Set(85, "app_db", "storesSensitiveData", TRUE),
    Set(86, "app_db", "port", 27017),
    Set(87, "app_db", "protocol", "TLS over TCP")
>>

DataStmts == <<
    New(91, "Data", "credentials", << <<"name", "User Credentials">> >>),
    Set(92, "credentials", "description",
        "Email and password used to authenticate users and coaches."),
    Set(93, "credentials", "classification", "Classification.SENSITIVE"),
    Set(94, "credentials", "isPII", TRUE),
    Set(95, "credentials", "isStored", TRUE),
    Set(96, "credentials", "isDestEncryptedAtRest", TRUE),
    New(98, "Data", "profile_data", << <<"name", "User Profile Data">> >>),
    Set(99, "profile_data", "description",
        "User and coach profile data (name, email, role, BMI, etc.)."),
    Set(100, "profile_data", "classification", "Classification.RESTRICTED"),
    Set(101, "profile_data", "isPII", TRUE),
    Set(102, "profile_data", "isStored", TRUE),
    Set(103, "profile_data", "isDestEncryptedAtRest", TRUE),
    New(105, "Data", "workout_data", << <<"name", "Workout and Routine Data">> >>),
    Set(106, "workout_data", "description",
        "Exercises, routines, goals, progress records."),
    Set(107, "workout_data", "classification", "Classification.SENSITIVE"),
    Set(108, "workout_data", "isStored", TRUE),
    Set(109, "workout_data", "isDestEncryptedAtRest", TRUE),
    New(111, "Data", "class_schedule", << <<"name", "Class Schedule Data">> >>),
    Set(112, "class_schedule", "description",
        "Classes, schedules, coach assignments."),
    Set(113, "class_schedule", "classification", "Classification.SENSITIVE"),
    Set(114, "class_schedule", "isStored", TRUE),
    Set(115, "class_schedule", "isDestEncryptedAtRest", TRUE),
    New(117, "Data", "session_token", <<
        <<"name", "Session / Auth Token">>,
        <<"description", "Session cookie or JWT used to maintain authenticated sessions.">>,
        <<"classification", "Classification.SENSITIVE">> >>)
>>

\* Dataflow(source, sink, name): the endpoints are constructor arguments.
Flow(line, id, source, sink, name) ==
    New(line, "Dataflow", id,
        << <<"source", source>>, <<"sink", sink>>, <<"name", name>> >>)

UserFrontendFlowStmts == <<
    Flow(125, "user_to_frontend", "user", "frontend", "HTTP(S) Requests from User"),
    Set(126, "user_to_frontend", "protocol", "HTTPS"),
    Set(127, "user_to_frontend", "dstPort", 443),
    Flow(129, "frontend_to_user", "frontend", "user", "HTML/JS/CSS Responses to User"),
    Set(130, "frontend_to_user", "protocol", "HTTPS"),
    Set(131, "frontend_to_user", "dstPort", 443),
    Flow(133, "coach_to_frontend", "coach", "frontend", "HTTP(S) Requests from Coach/Admin"),
    Set(134, "coach_to_frontend", "protocol", "HTTPS"),
    Set(135, "coach_to_frontend", "dstPort", 443),
    Flow(137, "frontend_to_coach", "frontend", "coach", "HTML/JS/CSS Responses to Coach/Admin"),
    Set(138, "frontend_to_coach", "protocol", "HTTPS"),
    Set(139, "frontend_to_coach", "dstPort", 443)
>>

FrontendApiFlowStmts == <<
    Flow(143, "frontend_to_api", "frontend", "api_server", "API Calls (login, register, CRUD)"),
    Set(144, "frontend_to_api", "protocol", "HTTPS"),
    Set(145, "frontend_to_api", "dstPort", 443),
    Set(146, "frontend_to_api", "tlsVersion", "TLSVersion.TLSv12"),
    Set(147, "frontend_to_api", "data",
        <<"credentials", "profile_data", "workout_data", "class_schedule", "session_token">>),
    Set(148, "frontend_to_api", "usesSessionTokens", TRUE),
    Flow(150, "api_to_frontend", "api_server", "frontend", "API Responses (JSON / HTML)"),
    Set(151, "api_to_frontend", "protocol", "HTTPS"),
    Set(152, "api_to_frontend", "dstPort", 443),
    Set(153, "api_to_frontend", "tlsVersion", "TLSVersion.TLSv12"),
    Set(154, "api_to_frontend", "data",
        <<"profile_data", "workout_data", "class_schedule", "session_token">>)
>>
\* x.data = d with a single Data object d: the flow carries the one-element
\* collection <<d>>.
ApiDbFlowStmts == <<
    Flow(158, "api_to_db_auth", "api_server", "app_db", "Store / Read Credentials"),
    Set(159, "api_to_db_auth", "protocol", "TLS"),
    Set(160, "api_to_db_auth", "dstPort", 27017),
    Set(161, "api_to_db_auth", "data", <<"credentials">>),
    Flow(163, "db_to_api_auth", "app_db", "api_server", "Return Credentials / Auth Data"),
    Set(164, "db_to_api_auth", "protocol", "TLS"),
    Set(165, "db_to_api_auth", "dstPort", 27017),
    Set(166, "db_to_api_auth", "data", <<"credentials">>),
    Flow(168, "api_to_db_profile", "api_server", "app_db", "Store / Read User Profiles"),
    Set(169, "api_to_db_profile", "protocol", "TLS"),
    Set(170, "api_to_db_profile", "dstPort", 27017),
    Set(171, "api_to_db_profile", "data", <<"profile_data">>),
    Flow(173, "db_to_api_profile", "app_db", "api_server", "Return User Profiles"),
    Set(174, "db_to_api_profile", "protocol", "TLS"),
    Set(175, "db_to_api_profile", "dstPort", 27017),
    Set(176, "db_to_api_profile", "data", <<"profile_data">>),
    Flow(178, "api_to_db_workouts", "api_server", "app_db", "CRUD Workouts and Routines"),
    Set(179, "api_to_db_workouts", "protocol", "TLS"),
    Set(180, "api_to_db_workouts", "dstPort", 27017),
    Set(181, "api_to_db_workouts", "data", <<"workout_data">>),
    Flow(183, "db_to_api_workouts", "app_db", "api_server", "Return Workouts and Routines"),
    Set(184, "db_to_api_workouts", "protocol", "TLS"),
    Set(185, "db_to_api_workouts", "dstPort", 27017),
    Set(186, "db_to_api_workouts", "data", <<"workout_data">>),
    Flow(188, "api_to_db_classes", "api_server", "app_db", "CRUD Classes and Schedules"),
    Set(189, "api_to_db_classes", "protocol", "TLS"),
    Set(190, "api_to_db_classes", "dstPort", 27017),
    Set(191, "api_to_db_classes", "data", <<"class_schedule">>),
    Flow(193, "db_to_api_classes", "app_db", "api_server", "Return Classes and Schedules"),
    Set(194, "db_to_api_classes", "protocol", "TLS"),
    Set(195, "db_to_api_classes", "dstPort", 27017),
    Set(196, "db_to_api_classes", "data", <<"class_schedule">>)
>>

TokenLinkStmts == <<
    Set(199, "session_token", "traverses", <<"frontend_to_api", "api_to_frontend">>),
    Set(203, "session_token", "processedBy", <<"api_server">>)
>>

MainStmts == <<
    ProcessIfMain(205)
>>

\* Variant of Program: the user/coach <-> frontend Dataflows are declared
\* right after the actors, before the servers.
Program_FlowsBeforeServers ==
    TMStmts \o BoundaryStmts \o ActorStmts \o UserFrontendFlowStmts
      \o ServerStmts \o DatastoreStmts \o DataStmts \o FrontendApiFlowStmts
      \o ApiDbFlowStmts \o TokenLinkStmts \o MainStmts

\* Variant of Program: the Data objects are declared after the Dataflows
\* that carry them.
Program_DataAfterFlows ==
    TMStmts \o BoundaryStmts \o ActorStmts \o ServerStmts \o DatastoreStmts
      \o UserFrontendFlowStmts \o FrontendApiFlowStmts \o ApiDbFlowStmts
      \o DataStmts \o TokenLinkStmts \o MainStmts

\* Variant of Program: tm.process() is called before session_token is linked
\* to its flows.
Program_ProcessBeforeLinks ==
    TMStmts \o BoundaryStmts \o ActorStmts \o ServerStmts \o DatastoreStmts
      \o DataStmts \o UserFrontendFlowStmts \o FrontendApiFlowStmts
      \o ApiDbFlowStmts \o MainStmts \o TokenLinkStmts

Program ==
    TMStmts \o BoundaryStmts \o ActorStmts \o ServerStmts \o DatastoreStmts
      \o DataStmts \o UserFrontendFlowStmts \o FrontendApiFlowStmts
      \o ApiDbFlowStmts \o TokenLinkStmts \o MainStmts

\* pc value of a run that has executed the whole module body
Done == Len(Program) + 1

----------------------------------------------------------------------------
(* State *)

\* pc[r]           index in Program of the next statement of run r
\* registry[r]     the objects constructed so far, in construction order
\* attrs[r]        attribute values assigned so far, keyed by <<object, attribute>>
\* lastNew[r]      the most recently constructed object
\* isMain[r]       whether the module runs as the main program (__name__)
\* processCalls[r] number of calls of tm.process() so far
\* atProcess[r]    the graph <<registry, attrs>> as it was at each call of
\*                 tm.process()

Stmt(r) == Program[pc[r]]

Ids(reg) == {reg[i].id : i \in DOMAIN reg}

KindOf(reg, id) == (CHOOSE i \in DOMAIN reg : reg[i].id = id).kind

\* Attributes set by the constructor call itself
InitAttrs(id, init) ==
    [k \in {<<id, init[i][1]>> : i \in DOMAIN init} |->
        init[CHOOSE i \in DOMAIN init : init[i][1] = k[2]][2]]

Init ==
    /\ pc = [r \in Runs |-> 1]
    /\ registry = [r \in Runs |-> <<>>]
    /\ attrs = [r \in Runs |-> <<>>]
    /\ lastNew = [r \in Runs |-> "none"]
    /\ isMain \in [Runs -> BOOLEAN]
    /\ processCalls = [r \in Runs |-> 0]
    /\ atProcess = [r \in Runs |-> <<>>]

\* Variant of Construct: every object gets an identifier drawn at random.
Construct_RandomUuid(r) ==
    /\ pc[r] <= Len(Program)
    /\ Stmt(r).op = "new"
    /\ registry' = [registry EXCEPT ![r] =
                        Append(@, [id |-> Stmt(r).id, kind |-> Stmt(r).kind])]
    /\ \E u \in {0, 1} :
          attrs' = [attrs EXCEPT ![r] =
                       (<<Stmt(r).id, "uuid">> :> u)
                           @@ InitAttrs(Stmt(r).id, Stmt(r).init) @@ @]
    /\ lastNew' = [lastNew EXCEPT ![r] = Stmt(r).id]
    /\ pc' = [pc EXCEPT ![r] = @ + 1]
    /\ UNCHANGED <<isMain, processCalls, atProcess>>

\* x = Kind(...)
Construct(r) ==
    /\ pc[r] <= Len(Program)
    /\ Stmt(r).op = "new"
    /\ registry' = [registry EXCEPT ![r] =
                        Append(@, [id |-> Stmt(r).id, kind |-> Stmt(r).kind])]
    /\ attrs' = [attrs EXCEPT ![r] = InitAttrs(Stmt(r).id, Stmt(r).init) @@ @]
    /\ lastNew' = [lastNew EXCEPT ![r] = Stmt(r).id]
    /\ pc' = [pc EXCEPT ![r] = @ + 1]
    /\ UNCHANGED <<isMain, processCalls, atProcess>>

\* x.attr = val
SetAttr(r) ==
    /\ pc[r] <= Len(Program)
    /\ Stmt(r).op = "set"
    /\ attrs' = [attrs EXCEPT ![r] =
                     (<<Stmt(r).id, Stmt(r).attr>> :> Stmt(r).val) @@ @]
    /\ pc' = [pc EXCEPT ![r] = @ + 1]
    /\ UNCHANGED <<registry, lastNew, isMain, processCalls, atProcess>>

\* if __name__ == "__main__": tm.process()   -- the module is the main program
Process(r) ==
    /\ pc[r] <= Len(Program)
    /\ Stmt(r).op = "process_if_main"
    /\ isMain[r]
    /\ processCalls' = [processCalls EXCEPT ![r] = @ + 1]
    /\ atProcess' = [atProcess EXCEPT ![r] = Append(@, <<registry[r], attrs[r]>>)]
    /\ pc' = [pc EXCEPT ![r] = @ + 1]
    /\ UNCHANGED <<registry, attrs, lastNew, isMain>>

\* if __name__ == "__main__": ...            -- the module was imported
SkipProcess(r) ==
    /\ pc[r] <= Len(Program)
    /\ Stmt(r).op = "process_if_main"
    /\ ~isMain[r]
    /\ pc' = [pc EXCEPT ![r] = @ + 1]
    /\ UNCHANGED <<registry, attrs, lastNew, isMain, processCalls, atProcess>>

Next ==
    \/ \E r \in Runs : Construct(r)
    \/ \E r \in Runs : SetAttr(r)
    \/ \E r \in Runs : Process(r)
    \/ \E r \in Runs : SkipProcess(r)

Spec == Init /\ [][Next]_vars

----------------------------------------------------------------------------
(* Derived views of the graph of run r *)

Has(r, id, attr) == <<id, attr>> \in DOMAIN attrs[r]

Attr(r, id, attr) == attrs[r][<<id, attr>>]

OfKind(r, kind) == {registry[r][i].id : i \in {j \in DOMAIN registry[r] : registry[r][j].kind = kind}}

Flows(r) == OfKind(r, "Dataflow")

\* Objects a Dataflow may have as an endpoint
Elements(r) == OfKind(r, "Actor") \cup OfKind(r, "Server") \cup OfKind(r, "Datastore")

\* The Data objects carried by flow f (empty while f.data is unassigned)
DataOf(r, f) == IF Has(r, f, "data") THEN Range(Attr(r, f, "data")) ELSE {}

\* The flows that have the datastore as source or sink
TouchesDb(r, f) == Attr(r, f, "source") = "app_db" \/ Attr(r, f, "sink") = "app_db"

\* Every construction and every attribute assignment of the script has run
FullyPopulated(r) ==
    \A i \in DOMAIN Program :
        /\ Program[i].op = "new" => Program[i].id \in Ids(registry[r])
        /\ Program[i].op = "set" => Has(r, Program[i].id, Program[i].attr)

\* The current step assigns or changes the attribute with key k in run r
IsAssigned(r, k) ==
    /\ k \in DOMAIN attrs'[r]
    /\ k \notin DOMAIN attrs[r] \/ attrs'[r][k] # attrs[r][k]

\* The attribute keys whose value the current step assigns or changes in run r
Assigned(r) == {k \in DOMAIN attrs'[r] : IsAssigned(r, k)}

\* The Dataflows the script declares
DeclaredFlows ==
    {Program[i].id : i \in {j \in DOMAIN Program :
        Program[j].op = "new" /\ Program[j].kind = "Dataflow"}}

----------------------------------------------------------------------------
(* Claims *)

\* C1: in every state of a run, every constructed Dataflow has a source and a
\* sink that are both already-constructed Actor, Server or Datastore objects;
\* never a Boundary, a Data object or an object that is not constructed.
C1_EndpointsDeclared ==
    \A r \in Runs : \A f \in Flows(r) :
        /\ Attr(r, f, "source") \in Elements(r)
        /\ Attr(r, f, "sink") \in Elements(r)

\* C1 witness: a run has constructed all fourteen Dataflows, among endpoints
\* of all three kinds.
C1_Witness ==
    \E r \in Runs :
        /\ Cardinality(Flows(r)) = 14
        /\ \E f \in Flows(r) : Attr(r, f, "source") \in OfKind(r, "Actor")
        /\ \E f \in Flows(r) : Attr(r, f, "source") \in OfKind(r, "Server")
        /\ \E f \in Flows(r) : Attr(r, f, "source") \in OfKind(r, "Datastore")

\* C2: whenever a step assigns the data attribute of a Dataflow, every object
\* in the assigned collection is a Data object that was constructed before
\* that step.
C2_DataDeclaredBeforeUse ==
    [][\A r \in Runs : \A f \in Flows(r) :
          IsAssigned(r, <<f, "data">>)
              => Range(attrs'[r][<<f, "data">>]) \subseteq OfKind(r, "Data")]_vars

\* C2 witness: all ten data-carrying flows have their data assigned and all
\* five Data objects are carried by some flow.
C2_Witness ==
    \E r \in Runs :
        /\ Cardinality({f \in Flows(r) : Has(r, f, "data")}) = 10
        /\ UNION {DataOf(r, f) : f \in Flows(r)} = OfKind(r, "Data")
        /\ Cardinality(OfKind(r, "Data")) = 5

\* C3 as stated: every step that assigns an attribute assigns it to the most
\* recently constructed object, so no object is mutated once a later object
\* has been constructed.
C3_Original ==
    [][\A r \in Runs : \A k \in Assigned(r) : k[1] = lastNew'[r]]_vars

\* C3 as amended: every step that assigns an attribute assigns it to the most
\* recently constructed object, except the assignments of
\* session_token.traverses and session_token.processedBy, which happen after
\* every Dataflow of the script has been constructed.
C3_AssignedAfterConstruction ==
    [][\A r \in Runs : \A k \in Assigned(r) :
          \/ k[1] = lastNew'[r]
          \/ /\ k[1] = "session_token"
             /\ k[2] \in {"traverses", "processedBy"}
             /\ DeclaredFlows \subseteq Flows(r)]_vars

\* C3 witness: both late assignments to session_token have run while the last
\* constructed object is the last Dataflow, and an ordinary assignment to
\* that Dataflow has run as well.
C3_Witness ==
    \E r \in Runs :
        /\ Has(r, "session_token", "traverses")
        /\ Has(r, "session_token", "processedBy")
        /\ lastNew[r] = "db_to_api_classes"
        /\ Has(r, "db_to_api_classes", "data")

\* C4: tm.process() is called at most once per run, never when the module
\* is not the main program, and only as the last step: when it has been
\* called the run is at the end of the script, every construction and
\* assignment has run, and the graph is still the one process() was given.
C4_ProcessLastOnce ==
    \A r \in Runs :
        /\ processCalls[r] <= 1
        /\ ~isMain[r] => processCalls[r] = 0
        /\ processCalls[r] >= 1 =>
              /\ pc[r] = Done
              /\ FullyPopulated(r)
              /\ atProcess[r][1] = <<registry[r], attrs[r]>>

\* C4 witness: one run has called process(), the other has finished the
\* script as an imported module.
C4_Witness ==
    \E r1, r2 \in Runs :
        /\ processCalls[r1] = 1 /\ isMain[r1]
        /\ pc[r2] = Done /\ ~isMain[r2]

\* C5: every Dataflow that has app_db as source or sink and whose dstPort is
\* assigned has dstPort 27017, equal to app_db.port; at the end of the script
\* every such Dataflow has its dstPort assigned.
C5_DbPort ==
    \A r \in Runs : \A f \in Flows(r) :
        TouchesDb(r, f) =>
            /\ Has(r, f, "dstPort") =>
                  /\ Attr(r, f, "dstPort") = 27017
                  /\ Has(r, "app_db", "port")
                  /\ Attr(r, f, "dstPort") = Attr(r, "app_db", "port")
            /\ pc[r] = Done => Has(r, f, "dstPort")

\* C5 witness: the script is finished and eight Dataflows touch app_db, in
\* both directions.
C5_Witness ==
    \E r \in Runs :
        /\ pc[r] = Done
        /\ Cardinality({f \in Flows(r) : TouchesDb(r, f)}) = 8
        /\ \E f \in Flows(r) : Attr(r, f, "source") = "app_db"
        /\ \E f \in Flows(r) : Attr(r, f, "sink") = "app_db"

\* The <<port, protocol>> pairs declared in run r by objects that have both:
\* Dataflow.dstPort / Dataflow.protocol and Datastore.port / Datastore.protocol.
PortProtocolPairs(r) ==
    {<<Attr(r, f, "dstPort"), Attr(r, f, "protocol")>> :
        f \in {g \in Flows(r) : Has(r, g, "dstPort") /\ Has(r, g, "protocol")}}
    \cup
    {<<Attr(r, d, "port"), Attr(r, d, "protocol")>> :
        d \in {e \in OfKind(r, "Datastore") : Has(r, e, "port") /\ Has(r, e, "protocol")}}

\* C6 as stated: any two objects that declare the same port declare the same
\* protocol string, so each port is paired with exactly one protocol.
C6_PortProtocolConsistent ==
    \A r \in Runs : \A p, q \in PortProtocolPairs(r) : p[1] = q[1] => p[2] = q[2]

\* C7: every value assigned to a Data object's classification or to a
\* Datastore's maxClassification is one of the levels PUBLIC, SENSITIVE,
\* RESTRICTED of the Classification enumeration.
C7_ClassificationInEnum ==
    \A r \in Runs : \A k \in DOMAIN attrs[r] :
        k[2] \in {"classification", "maxClassification"} =>
            attrs[r][k] \in {"Classification.PUBLIC", "Classification.SENSITIVE",
                             "Classification.RESTRICTED"}

\* C7 witness: all five Data objects and the datastore have their
\* classification assigned, and both levels the script uses occur.
C7_Witness ==
    \E r \in Runs :
        /\ Cardinality(OfKind(r, "Data")) = 5
        /\ \A d \in OfKind(r, "Data") : Has(r, d, "classification")
        /\ Has(r, "app_db", "maxClassification")
        /\ \E d \in OfKind(r, "Data") : Attr(r, d, "classification") = "Classification.SENSITIVE"
        /\ \E d \in OfKind(r, "Data") : Attr(r, d, "classification") = "Classification.RESTRICTED"

CarriesToken(r) == {f \in Flows(r) : "session_token" \in DataOf(r, f)}

\* C9 as stated: at the end of the script session_token.traverses is exactly
\* the set of Dataflows that carry session_token, each of them has an
\* endpoint in session_token.processedBy, and each of them has
\* usesSessionTokens assigned True.
C9_TokenFlowsConsistent ==
    \A r \in Runs :
        pc[r] = Done =>
            /\ Range(Attr(r, "session_token", "traverses")) = CarriesToken(r)
            /\ CarriesToken(r) = {"frontend_to_api", "api_to_frontend"}
            /\ \A f \in CarriesToken(r) :
                  \/ Attr(r, f, "source") \in Range(Attr(r, "session_token", "processedBy"))
                  \/ Attr(r, f, "sink") \in Range(Attr(r, "session_token", "processedBy"))
            /\ \A f \in CarriesToken(r) :
                  Has(r, f, "usesSessionTokens") /\ Attr(r, f, "usesSessionTokens") = TRUE

====
